---- MODULE Spec2Model ----
(***************************************************************************)
(* pktwallet configuration resolution: loadConfig of pktwallet/config.go.  *)
(*                                                                         *)
(* One run of loadConfig is modelled as a sequential program: `pc` is the  *)
(* position in the function, every action is one block of its body.  The   *)
(* inputs are the command line (`args`), the wallet's config file (`file`) *)
(* and the answers of the environment (file system, sibling daemon config, *)
(* host lookup, wallet creation), the latter drawn where the code asks.    *)
(*                                                                         *)
(* File-system paths are modelled as a root flag and a sequence of         *)
(* segments, so that filepath.Clean, filepath.Join, os.ExpandEnv and the   *)
(* ~ expansion of cleanAndExpandPath are computed, not assumed.            *)
(***************************************************************************)
EXTENDS Integers, Sequences, FiniteSets, TLC

VARIABLES
    args,            \* the command line, as go-flags reads it (never changes)
    file,            \* the content of the wallet's config file as parsed
    pc,              \* position in loadConfig
    cfg,             \* the config struct being resolved
    preCfg,          \* the value fields of the pre-parse copy of cfg
    configFilePath,  \* local configFilePath
    configFileError, \* local configFileError # nil
    sibling,         \* what pktconfig.ReadUserPass(pktdDefaultConf) gave
    activeNet,       \* package variable activeNet (name of the network)
    fs,              \* what the file-system checks answered
    calls,           \* side effects: directories and wallets created
    printed,         \* messages written to stderr / stdout
    outcome,         \* how the run ended
    errKind,         \* which error was returned
    errAddr,         \* the address a listener conflict error names
    ran              \* the blocks of loadConfig that completed

vars == <<args, file, pc, cfg, preCfg, configFilePath, configFileError,
          sibling, activeNet, fs, calls, printed, outcome, errKind, errAddr,
          ran>>

(***************************************************************************)
(* Bounds.                                                                 *)
(***************************************************************************)
\* longest listener list given for one RPC server
MaxListeners == 2

(***************************************************************************)
(* Paths.  A path is [abs, segs]: abs says it starts with the separator,   *)
(* segs are the elements between separators.  The relative path without    *)
(* segments stands for "." (what filepath.Clean makes of the empty path).  *)
(***************************************************************************)
Path(a, s) == [abs |-> a, segs |-> s]

Name(s) == Path(FALSE, <<s>>)

RECURSIVE CleanSegs(_, _, _)
CleanSegs(abs, segs, out) ==
    IF segs = <<>> THEN out
    ELSE LET s == Head(segs)
             r == Tail(segs)
         IN  IF s = "" \/ s = "." THEN CleanSegs(abs, r, out)
             ELSE IF s = ".."
                  THEN IF out # <<>> /\ out[Len(out)] # ".."
                       THEN CleanSegs(abs, r, SubSeq(out, 1, Len(out) - 1))
                       ELSE IF abs THEN CleanSegs(abs, r, out)
                            ELSE CleanSegs(abs, r, Append(out, ".."))
                  ELSE CleanSegs(abs, r, Append(out, s))

\* filepath.Clean
Clean(p) == Path(p.abs, CleanSegs(p.abs, p.segs, <<>>))

\* filepath.Join of two elements: joined by a separator, then cleaned
Join(a, b) == Clean(Path(a.abs, a.segs \o b.segs))

\* the process environment: $V is set to "/e"
EnvV == Path(TRUE, <<"e">>)

RECURSIVE ExpandSegs(_)
ExpandSegs(segs) ==
    IF segs = <<>> THEN <<>>
    ELSE (IF Head(segs) = "$V" THEN EnvV.segs ELSE <<Head(segs)>>)
         \o ExpandSegs(Tail(segs))

\* os.ExpandEnv
ExpandEnv(p) ==
    Path(p.abs \/ (p.segs # <<>> /\ p.segs[1] = "$V" /\ EnvV.abs),
         ExpandSegs(p.segs))

\* the segments that start with ~ and the user name each carries
TildeSegs == {"~", "~u", "~x"}

TildeName(s) == IF s = "~u" THEN "u" ELSE IF s = "~x" THEN "x" ELSE ""

\* user.Current / user.Lookup: the current user's home is /h, user u's is
\* /hu, any other lookup fails and the code falls back to "."
HomeOf(userName) ==
    IF userName = "" THEN Path(TRUE, <<"h">>)
    ELSE IF userName = "u" THEN Path(TRUE, <<"hu">>)
    ELSE Path(FALSE, <<>>)

cleanAndExpandPath(path) ==
    LET q == ExpandEnv(path)
    IN  IF ~(~q.abs /\ q.segs # <<>> /\ q.segs[1] \in TildeSegs)
        THEN Clean(q)
        ELSE LET sep == Len(q.segs) > 1
                 tn == TildeName(q.segs[1])
                 userName == IF sep THEN tn ELSE ""
                 rest == IF sep THEN Tail(q.segs)
                         ELSE IF tn = "" THEN <<>> ELSE <<tn>>
             IN  Join(HomeOf(userName), Path(sep, rest))

(***************************************************************************)
(* Package-level defaults.                                                 *)
(***************************************************************************)
\* btcutil.AppDataDir("pktwallet", false) and ("pktd", false) for the
\* current user
defaultAppDataDir == Path(TRUE, <<"h", ".pktwallet">>)

pktdAppDataDir == Path(TRUE, <<"h", ".pktd">>)

defaultConfigFilename == Name("pktwallet.conf")

defaultConfigFile == Join(defaultAppDataDir, defaultConfigFilename)

defaultRPCKeyFile == Join(defaultAppDataDir, Name("rpc.key"))

defaultRPCCertFile == Join(defaultAppDataDir, Name("rpc.cert"))

defaultLogDir == Join(defaultAppDataDir, Name("logs"))

pktdDefaultCAFile == Join(pktdAppDataDir, Name("rpc.cert"))

defaultCAFilename == Name("pktd.cert")

defaultLogLevel == "info"

\* cfgutil.NewExplicitString
NewExplicitString(v) == [Value |-> v, Set |-> FALSE]

\* the five network-selection flags, in the order loadConfig tests them
NetFlags == <<"TestNet3", "SimNet", "PktTestNet", "PktMainNet", "BtcMainNet">>

NetFlagSet == {NetFlags[i] : i \in 1..Len(NetFlags)}

\* the network a flag selects (netparams.*Params)
NetOfFlag(f) ==
    CASE f = "TestNet3" -> "testnet3"
      [] f = "SimNet" -> "simnet"
      [] f = "PktTestNet" -> "pkttest"
      [] f = "PktMainNet" -> "pkt"
      [] OTHER -> "mainnet"

Networks == {NetOfFlag(f) : f \in NetFlagSet}

\* the package variable activeNet before loadConfig assigns it: the main
\* network ("default mainnet" in the descriptions of the network flags)
defaultActiveNet == "mainnet"

\* activeNet.RPCServerPort (netparams; the three that option rpclisten
\* documents, and the pkt networks' own)
RPCServerPort(net) ==
    CASE net = "mainnet" -> 8332
      [] net = "testnet3" -> 18332
      [] net = "simnet" -> 18554
      [] net = "pkt" -> 64763
      [] OTHER -> 64511

\* activeNet.RPCClientPort
RPCClientPort(net) ==
    CASE net = "mainnet" -> 8334
      [] net = "testnet3" -> 18334
      [] net = "simnet" -> 18556
      [] net = "pkt" -> 64765
      [] OTHER -> 64513

(***************************************************************************)
(* Addresses: [host, port]; port 0 means the text carries no port.         *)
(***************************************************************************)
Addr(h, p) == [host |-> h, port |-> p]

\* a text that net.SplitHostPort rejects with and without a port appended
MalformedHosts == {"[::1"}

\* cfgutil.NormalizeAddress: the default port is added when none is given
NormalizeAddress(addr, defaultPort) ==
    IF addr.port # 0 THEN addr ELSE Addr(addr.host, defaultPort)

RECURSIVE Dedup(_, _)
Dedup(addrs, out) ==
    IF addrs = <<>> THEN out
    ELSE IF \E i \in 1..Len(out) : out[i] = Head(addrs)
         THEN Dedup(Tail(addrs), out)
         ELSE Dedup(Tail(addrs), Append(out, Head(addrs)))

\* cfgutil.NormalizeAddresses: each address normalized, duplicates removed
NormalizeAddresses(addrs, defaultPort) ==
    Dedup([i \in 1..Len(addrs) |-> NormalizeAddress(addrs[i], defaultPort)],
          <<>>)

\* whether cfgutil.NormalizeAddresses returns an error
NormalizeFails(addrs) ==
    \E i \in 1..Len(addrs) : addrs[i].host \in MalformedHosts

(***************************************************************************)
(* The option sources.  A source (the command line, the config file) gives *)
(* each option or not: <<>> is "not given", <<v>> is "given as v"; a flag  *)
(* is given or not; a list option is the list of the values given.         *)
(***************************************************************************)
NoSource ==
    [bad |-> FALSE, version |-> FALSE,
     nets |-> {}, create |-> FALSE, createtemp |-> FALSE,
     noinitialload |-> FALSE, userpc |-> FALSE, clienttls |-> FALSE,
     configfile |-> <<>>, appdata |-> <<>>, datadir |-> <<>>,
     rpckey |-> <<>>, rpccert |-> <<>>, cafile |-> <<>>, logdir |-> <<>>,
     debuglevel |-> <<>>, rpcconnect |-> <<>>,
     rpcuser |-> <<>>, rpcpass |-> <<>>, username |-> <<>>,
     password |-> <<>>, pktdusername |-> <<>>, pktdpassword |-> <<>>,
     rpclisten |-> <<>>, experimentalrpclisten |-> <<>>]

\* the config struct with its defaults
DefaultConfig ==
    [ConfigFile |-> NewExplicitString(defaultConfigFile),
     ShowVersion |-> FALSE,
     Create |-> FALSE,
     CreateTemp |-> FALSE,
     AppDataDir |-> NewExplicitString(defaultAppDataDir),
     nets |-> {},
     NoInitialLoad |-> FALSE,
     DebugLevel |-> defaultLogLevel,
     LogDir |-> defaultLogDir,
     RPCConnect |-> <<>>,
     CAFile |-> NewExplicitString(Path(FALSE, <<>>)),
     ClientTLS |-> FALSE,
     BtcdUsername |-> "",
     BtcdPassword |-> "",
     UseRPC |-> FALSE,
     RPCCert |-> NewExplicitString(defaultRPCCertFile),
     RPCKey |-> NewExplicitString(defaultRPCKeyFile),
     LegacyRPCListeners |-> <<>>,
     Username |-> "",
     Password |-> "",
     OldUsername |-> "",
     OldPassword |-> "",
     ExperimentalRPCListeners |-> <<>>,
     DataDir |-> NewExplicitString(defaultAppDataDir)]

\* ExplicitString.UnmarshalFlag: the value is stored and marked explicit
SetExplicit(es, given) ==
    IF given = <<>> THEN es ELSE [Value |-> given[1], Set |-> TRUE]

SetValue(v, given) == IF given = <<>> THEN v ELSE given[1]

\* a list option given in a parse replaces the list held before
SetList(l, given) == IF given = <<>> THEN l ELSE given

\* one go-flags parse of source s into the struct c: every option the
\* source gives is written, the others keep what they hold
Apply(c, s) ==
    [c EXCEPT
       !.ConfigFile = SetExplicit(@, s.configfile),
       !.ShowVersion = @ \/ s.version,
       !.Create = @ \/ s.create,
       !.CreateTemp = @ \/ s.createtemp,
       !.AppDataDir = SetExplicit(@, s.appdata),
       !.nets = @ \cup s.nets,
       !.NoInitialLoad = @ \/ s.noinitialload,
       !.DebugLevel = SetValue(@, s.debuglevel),
       !.LogDir = SetValue(@, s.logdir),
       !.RPCConnect = SetList(@, s.rpcconnect),
       !.CAFile = SetExplicit(@, s.cafile),
       !.ClientTLS = @ \/ s.clienttls,
       !.BtcdUsername = SetValue(@, s.pktdusername),
       !.BtcdPassword = SetValue(@, s.pktdpassword),
       !.UseRPC = @ \/ s.userpc,
       !.RPCCert = SetExplicit(@, s.rpccert),
       !.RPCKey = SetExplicit(@, s.rpckey),
       !.LegacyRPCListeners = SetList(@, s.rpclisten),
       !.Username = SetValue(@, s.rpcuser),
       !.Password = SetValue(@, s.rpcpass),
       !.OldUsername = SetValue(@, s.username),
       !.OldPassword = SetValue(@, s.password),
       !.ExperimentalRPCListeners = SetList(@, s.experimentalrpclisten),
       !.DataDir = SetExplicit(@, s.datadir)]

\* preCfg := cfg copies the struct, not the ExplicitString values its
\* pointer fields refer to: what the pre-parse writes through them is
\* written to cfg's
SharedWithPreCfg(c, pre) ==
    [c EXCEPT !.ConfigFile = pre.ConfigFile,
              !.AppDataDir = pre.AppDataDir,
              !.CAFile = pre.CAFile,
              !.RPCCert = pre.RPCCert,
              !.RPCKey = pre.RPCKey,
              !.DataDir = pre.DataDir]

(***************************************************************************)
(* The inputs: families of command lines and config files.  Each family    *)
(* varies the options of one part of loadConfig together and leaves the    *)
(* others as not given.                                                    *)
(***************************************************************************)
Opt(S) == {<<>>} \cup {<<v>> : v \in S}

ListsUpTo(S, n) == UNION {[1..k -> S] : k \in 0..n}

\* "/d", "./~x", "~/w", "$V/w", "d/../c" and the default directory itself
AppDataInputs ==
    {Path(TRUE, <<"d">>), Path(FALSE, <<".", "~x">>), Path(FALSE, <<"~", "w">>),
     Path(FALSE, <<"$V", "w">>), Path(FALSE, <<"d", "..", "c">>),
     defaultAppDataDir}

\* "/b", "~u/b"
DataDirInputs == {Path(TRUE, <<"b">>), Path(FALSE, <<"~u", "b">>)}

\* "/k", "~/k/./y"
KeyInputs == {Path(TRUE, <<"k">>), Path(FALSE, <<"~", "k", ".", "y">>)}

\* "c/../crt"
CertInputs == {Path(FALSE, <<"c", "..", "crt">>)}

\* "/l", "$V/l"
LogDirInputs == {Path(TRUE, <<"l">>), Path(FALSE, <<"$V", "l">>)}

\* "127.0.0.1", "127.0.0.1:8332", "[::1"
ListenerInputs == {Addr("127.0.0.1", 0), Addr("127.0.0.1", 8332), Addr("[::1", 0)}

\* wallet bootstrap: network flags, create flags, explicit directories
BootInputs ==
    {[args |-> [NoSource EXCEPT !.nets = n, !.create = c, !.createtemp = t,
                                !.noinitialload = l, !.appdata = a,
                                !.datadir = b],
      file |-> NoSource] :
        n \in SUBSET NetFlagSet, c \in BOOLEAN, t \in BOOLEAN, l \in BOOLEAN,
        a \in Opt({Path(TRUE, <<"d">>)}), b \in Opt({Path(TRUE, <<"b">>)})}

\* directories and the paths derived from them
PathInputs ==
    {[args |-> [NoSource EXCEPT !.appdata = a, !.datadir = b, !.rpckey = k,
                                !.rpccert = c, !.logdir = l, !.nets = n],
      file |-> [NoSource EXCEPT !.appdata = fa]] :
        a \in Opt(AppDataInputs), b \in Opt(DataDirInputs),
        k \in Opt(KeyInputs), c \in Opt(CertInputs), l \in Opt(LogDirInputs),
        n \in {{}, {"TestNet3"}}, fa \in Opt({Path(TRUE, <<"fa">>)})}

\* credentials
CredInputs ==
    {[args |-> [NoSource EXCEPT !.rpcuser = u, !.rpcpass = p, !.username = ou,
                                !.password = op, !.pktdusername = bu,
                                !.pktdpassword = bp],
      file |-> [NoSource EXCEPT !.rpcuser = fu, !.pktdusername = fbu]] :
        u \in Opt({"cu", ""}), p \in Opt({"cp"}), ou \in Opt({"ou"}),
        op \in Opt({"op"}), bu \in Opt({"bu", ""}), bp \in Opt({"bp"}),
        fu \in Opt({"fu"}), fbu \in Opt({"fbu"})}

\* RPC server listeners, alone and with a temporary wallet asked for
ListenInputs ==
    {[args |-> [NoSource EXCEPT !.rpclisten = ll,
                                !.experimentalrpclisten = el, !.nets = n,
                                !.createtemp = t, !.appdata = a],
      file |-> NoSource] :
        ll \in ListsUpTo(ListenerInputs, MaxListeners),
        el \in ListsUpTo(ListenerInputs, MaxListeners),
        n \in {{}, {"SimNet"}}, t \in BOOLEAN,
        a \in Opt({Path(TRUE, <<"d">>)})}

\* the same options given on the command line and in the file
LayerInputs ==
    {[args |-> [NoSource EXCEPT !.bad = x, !.version = v, !.debuglevel = d,
                                !.configfile = cf, !.rpclisten = ll,
                                !.create = c, !.nets = n],
      file |-> [NoSource EXCEPT !.debuglevel = fd, !.nets = fn,
                                !.rpclisten = fl, !.noinitialload = fi]] :
        x \in BOOLEAN, v \in BOOLEAN, d \in Opt({"debug", "bogus"}),
        cf \in Opt({Path(FALSE, <<"~", "cf">>)}),
        ll \in Opt({Addr("127.0.0.1", 0)}), c \in BOOLEAN,
        n \in {{}, {"TestNet3"}},
        fd \in Opt({"warn"}), fn \in {{}, {"SimNet"}},
        fl \in Opt({Addr("::1", 9)}), fi \in BOOLEAN}

\* the RPC client options
ClientInputs ==
    {[args |-> [NoSource EXCEPT !.userpc = r, !.clienttls = t,
                                !.rpcconnect = rc, !.cafile = ca,
                                !.appdata = a],
      file |-> NoSource] :
        r \in BOOLEAN, t \in BOOLEAN,
        rc \in Opt({Addr("localhost", 0), Addr("10.0.0.1", 7), Addr("[::1", 0)}),
        ca \in Opt({Path(FALSE, <<"~", "ca">>)}),
        a \in Opt({Path(TRUE, <<"d">>)})}

Inputs ==
    BootInputs \cup PathInputs \cup CredInputs \cup ListenInputs
    \cup LayerInputs \cup ClientInputs

Init ==
    /\ \E in \in Inputs : args = in.args /\ file = in.file
    /\ pc = "PreParse"
    /\ cfg = DefaultConfig
    /\ preCfg = DefaultConfig
    /\ configFilePath = defaultConfigFile
    /\ configFileError = FALSE
    /\ sibling = "unread"
    /\ activeNet = defaultActiveNet
    /\ fs = [db |-> "unknown", keystore |-> "unknown"]
    /\ calls = [netDir |-> 0, createSimulationWallet |-> 0, createWallet |-> 0]
    /\ printed = {}
    /\ outcome = "running"
    /\ errKind = ""
    /\ errAddr = <<>>
    /\ ran = {}

(***************************************************************************)
(* How a block of loadConfig ends: it goes on to the next block, or the    *)
(* run ends.  Outcomes: "config" (the configuration is returned),          *)
(* "error" (nil and a non-nil error), "nothing" (nil and a nil error),     *)
(* "exit0" (os.Exit(0)).                                                   *)
(***************************************************************************)
Go(next, me, msgs) ==
    /\ pc' = next
    /\ ran' = ran \cup {me}
    /\ printed' = printed \cup msgs
    /\ UNCHANGED <<outcome, errKind, errAddr>>

End(how, kind, msgs) ==
    /\ pc' = "done"
    /\ outcome' = how
    /\ errKind' = kind
    /\ printed' = printed \cup msgs
    /\ UNCHANGED <<ran, errAddr>>

(***************************************************************************)
(* loadConfig, block by block.                                             *)
(***************************************************************************)
\* preParser.Parse(): the command line read into the copy preCfg
PreParseInto(c, a) == Apply(c, a)

\* lines 231-249: the pre-parse, its error, the version flag
PreParse ==
    /\ pc = "PreParse"
    /\ IF args.bad
       THEN /\ End("error", "parse", {"usage"})
            /\ UNCHANGED <<cfg, preCfg>>
       ELSE LET pre == PreParseInto(cfg, args)
            IN  /\ preCfg' = pre
                /\ cfg' = SharedWithPreCfg(cfg, pre)
                /\ IF pre.ShowVersion
                   THEN End("exit0", "", {"version"})
                   ELSE Go("ConfigPath", "PreParse", {})
    /\ UNCHANGED <<args, file, configFilePath, configFileError, sibling,
                   activeNet, fs, calls>>

\* lines 254-265: where the config file is looked for
ConfigFilePathOf(pre) ==
    IF pre.ConfigFile.Set
    THEN cleanAndExpandPath(pre.ConfigFile.Value)
    ELSE LET appDataDir ==
                 IF ~pre.AppDataDir.Set /\ pre.DataDir.Set
                 THEN cleanAndExpandPath(pre.DataDir.Value)
                 ELSE pre.AppDataDir.Value
         IN  IF appDataDir # defaultAppDataDir
             THEN Join(appDataDir, defaultConfigFilename)
             ELSE pre.ConfigFile.Value

ConfigPath ==
    /\ pc = "ConfigPath"
    /\ configFilePath' = ConfigFilePathOf(preCfg)
    /\ Go("ReadUserPass", "ConfigPath", {})
    /\ UNCHANGED <<args, file, cfg, preCfg, configFileError, sibling,
                   activeNet, fs, calls>>

\* what pktconfig.ReadUserPass(pktdDefaultConf) can answer: the file is
\* absent, it cannot be read, it holds fewer than two values, it holds a
\* user and a password
SiblingAnswers == {"absent", "ioerr", "short", "pair"}

\* the user and password that pktd.conf holds
SiblingPair == <<"du", "dp">>

\* e.(*os.PathError)
IsPathError(e) == e = "PathError"

\* the error a ReadUserPass answer carries
SiblingError(answer) ==
    IF answer = "absent" THEN "PathError"
    ELSE IF answer = "ioerr" THEN "OtherError" ELSE "nil"

\* line 272: a failed read is let pass when errr is a path error; errr is
\* the error of the pre-parse, not err, the error of the read
SiblingErrorIgnored(errr, err) == IsPathError(errr)

\* er.E: nil stays nil
ErOf(e) == IF e = "nil" THEN "nothing" ELSE "error"

\* lines 267-281: the pktd user and password seeded from pktd.conf
ReadUserPass ==
    /\ pc = "ReadUserPass"
    /\ IF preCfg.Username # "" /\ preCfg.Password # ""
       THEN /\ sibling' = "skipped"
            /\ cfg' = cfg
            /\ Go("ParseFile", "ReadUserPass", {})
       ELSE \E answer \in SiblingAnswers :
              /\ sibling' = answer
              /\ IF SiblingError(answer) # "nil"
                 THEN /\ cfg' = cfg
                      /\ IF ~SiblingErrorIgnored("nil", SiblingError(answer))
                         THEN End(ErOf("nil"), "", {"pktd.conf error", "usage"})
                         ELSE Go("ParseFile", "ReadUserPass", {})
                 ELSE /\ cfg' = IF answer = "pair"
                                THEN [cfg EXCEPT !.BtcdUsername = SiblingPair[1],
                                                 !.BtcdPassword = SiblingPair[2]]
                                ELSE cfg
                      /\ Go("ParseFile", "ReadUserPass", {})
    /\ UNCHANGED <<args, file, preCfg, configFilePath, configFileError,
                   activeNet, fs, calls>>

\* flags.NewIniParser(parser).ParseFile: the file's options merged into cfg
IniParseInto(c, f) == Apply(c, f)

\* lines 283-296: the config file is merged, or created from the sample
\* and merged (the sample sets no option), or the run ends on a bad file
ParseFile ==
    /\ pc = "ParseFile"
    /\ \/ /\ cfg' = IniParseInto(cfg, file)
          /\ Go("Parse", "ParseFile", {})
          /\ UNCHANGED <<file, configFileError>>
       \/ /\ End("error", "inifile", {"config file error", "usage"})
          /\ UNCHANGED <<cfg, file, configFileError>>
       \/ \E created \in BOOLEAN :
             /\ file' = NoSource
             /\ configFileError' = ~created
             /\ cfg' = IF created THEN IniParseInto(cfg, NoSource) ELSE cfg
             /\ Go("Parse", "ParseFile", {"config file does not exist"})
    /\ UNCHANGED <<args, preCfg, configFilePath, sibling, activeNet, fs, calls>>

\* a variant of the final parse that reads the command line into a fresh
\* default struct, dropping what the file set
FinalParseFresh(c, a) == Apply(DefaultConfig, a)

\* parser.Parse(): the command line read into cfg, over what the file set
FinalParse(c, a) == Apply(c, a)

\* lines 298-305: the final parse (the command line parsed before, in the
\* pre-parse, so it parses)
Parse ==
    /\ pc = "Parse"
    /\ cfg' = FinalParse(cfg, args)
    /\ Go("Alias", "Parse", {})
    /\ UNCHANGED <<args, file, preCfg, configFilePath, configFileError,
                   sibling, activeNet, fs, calls>>

\* lines 307-315: the deprecated datadir stands in for appdata
AliasDataDir(c) ==
    IF c.DataDir.Set /\ ~c.AppDataDir.Set
    THEN [c EXCEPT !.AppDataDir.Value = c.DataDir.Value]
    ELSE c

Alias ==
    /\ pc = "Alias"
    /\ cfg' = AliasDataDir(cfg)
    /\ Go("AppData", "Alias",
          IF cfg.DataDir.Set THEN {"datadir is deprecated"} ELSE {})
    /\ UNCHANGED <<args, file, preCfg, configFilePath, configFileError,
                   sibling, activeNet, fs, calls>>

\* lines 320-328: with an explicit appdata the key and certificate that
\* were not given move into it
DeriveFromAppData(c) ==
    IF c.AppDataDir.Set
    THEN LET dir == cleanAndExpandPath(c.AppDataDir.Value)
         IN  [c EXCEPT
                !.AppDataDir.Value = dir,
                !.RPCKey.Value = IF c.RPCKey.Set THEN @
                                 ELSE Join(dir, Name("rpc.key")),
                !.RPCCert.Value = IF c.RPCCert.Set THEN @
                                  ELSE Join(dir, Name("rpc.cert"))]
    ELSE c

AppData ==
    /\ pc = "AppData"
    /\ cfg' = DeriveFromAppData(cfg)
    /\ Go("NetSelect", "AppData", {})
    /\ UNCHANGED <<args, file, preCfg, configFilePath, configFileError,
                   sibling, activeNet, fs, calls>>

\* lines 333-352: each flag that is set assigns activeNet, in this order
RECURSIVE SelectNet(_, _, _)
SelectNet(flags, nets, cur) ==
    IF flags = <<>> THEN cur
    ELSE SelectNet(Tail(flags), nets,
                   IF Head(flags) \in nets THEN NetOfFlag(Head(flags)) ELSE cur)

\* a variant of the check of line 353 that lets two networks pass
TooManyNetsOffByOne(numNets) == numNets > 2

\* line 353
TooManyNets(numNets) == numNets > 1

\* lines 330-367: the active network
NetSelect ==
    /\ pc = "NetSelect"
    /\ activeNet' = SelectNet(NetFlags, cfg.nets, activeNet)
    /\ IF TooManyNets(Cardinality(cfg.nets))
       THEN End("error", "multiple networks", {"multiple networks", "usage"})
       ELSE Go("LogDir", "NetSelect", {})
    /\ UNCHANGED <<args, file, cfg, preCfg, configFilePath, configFileError,
                   sibling, fs, calls>>

\* lines 371-372: the log directory, expanded, then the network's name
NamespacedLogDir(logDir, net) == Join(cleanAndExpandPath(logDir), Name(net))

LogDir ==
    /\ pc = "LogDir"
    /\ cfg' = [cfg EXCEPT !.LogDir = NamespacedLogDir(@, activeNet)]
    /\ Go("LogLevel", "LogDir", {})
    /\ UNCHANGED <<args, file, preCfg, configFilePath, configFileError,
                   sibling, activeNet, fs, calls>>

validLogLevel(logLevel) ==
    logLevel \in {"trace", "debug", "info", "warn", "error", "critical"}

\* lines 374-379: log.SetLogLevels refuses a level that is not valid
LogLevel ==
    /\ pc = "LogLevel"
    /\ IF ~validLogLevel(cfg.DebugLevel)
       THEN End("error", "log level", {"log level error", "usage"})
       ELSE Go("TempChecks", "LogLevel", {})
    /\ UNCHANGED <<args, file, cfg, preCfg, configFilePath, configFileError,
                   sibling, activeNet, fs, calls>>

\* line 383
TempWithoutDir(c) ==
    ~(c.AppDataDir.Set \/ c.DataDir.Set) /\ c.CreateTemp

\* line 391
TempOffSimNet(c) == ~("SimNet" \in c.nets) /\ c.CreateTemp

\* lines 381-395: a temporary wallet needs an explicit directory and simnet
TempChecks ==
    /\ pc = "TempChecks"
    /\ IF TempWithoutDir(cfg)
       THEN End("exit0", "", {"temporary wallet without data directory"})
       ELSE IF TempOffSimNet(cfg)
            THEN End("exit0", "", {"temporary wallet off simnet"})
            ELSE Go("Exclusive", "TempChecks", {})
    /\ UNCHANGED <<args, file, cfg, preCfg, configFilePath, configFileError,
                   sibling, activeNet, fs, calls>>

\* a variant of the check of line 401 that tests createtemp negated
CreateAndCreateTempNegated(c) == ~c.CreateTemp /\ c.Create

\* line 401
CreateAndCreateTemp(c) == c.CreateTemp /\ c.Create

\* a variant of loadConfig in which lines 408-471 are left out: from the
\* check of line 401 the run goes on to the listeners
ExclusiveThenListeners ==
    /\ pc = "Exclusive"
    /\ IF CreateAndCreateTemp(cfg)
       THEN End("error", "create and createtemp", {"create and createtemp"})
       ELSE Go("RPCClient", "Exclusive", {})
    /\ UNCHANGED <<args, file, cfg, preCfg, configFilePath, configFileError,
                   sibling, activeNet, fs, calls>>

\* lines 401-406: create and createtemp exclude each other
Exclusive ==
    /\ pc = "Exclusive"
    /\ IF CreateAndCreateTemp(cfg)
       THEN End("error", "create and createtemp", {"create and createtemp"})
       ELSE Go("DbExists", "Exclusive", {})
    /\ UNCHANGED <<args, file, cfg, preCfg, configFilePath, configFileError,
                   sibling, activeNet, fs, calls>>

\* what cfgutil.FileExists can answer
FileAnswers == {"yes", "no", "err"}

\* lines 408-412: is the wallet database there
DbExists ==
    /\ pc = "DbExists"
    /\ \E answer \in FileAnswers :
          /\ fs' = [fs EXCEPT !.db = answer]
          /\ IF answer = "err"
             THEN End("error", "io", {"io error"})
             ELSE Go("NetDir", "DbExists", {})
    /\ UNCHANGED <<args, file, cfg, preCfg, configFilePath, configFileError,
                   sibling, activeNet, calls>>

\* lines 414-418: checkCreateDir(netDir)
NetDir ==
    /\ pc = "NetDir"
    /\ \E ok \in BOOLEAN :
          IF ok
          THEN /\ calls' = [calls EXCEPT !.netDir = 1]
               /\ Go("Decide", "NetDir", {})
          ELSE /\ calls' = calls
               /\ End("error", "io", {"io error"})
    /\ UNCHANGED <<args, file, cfg, preCfg, configFilePath, configFileError,
                   sibling, activeNet, fs>>

\* a variant of lines 420-436 that forgets tempWalletExists
BootstrapDecisionAlwaysTemp(c, dbFileExists) ==
    IF c.CreateTemp THEN "CreateTemporary"
    ELSE IF c.Create
         THEN IF dbFileExists THEN "RejectExists" ELSE "CreatePermanent"
         ELSE IF ~dbFileExists /\ ~c.NoInitialLoad
              THEN "RejectAbsent"
              ELSE "DeferLoad"

\* a variant of lines 437-454 that creates the wallet over an existing one
BootstrapDecisionOverwrite(c, dbFileExists) ==
    IF c.CreateTemp
    THEN IF dbFileExists THEN "LoadExisting" ELSE "CreateTemporary"
    ELSE IF c.Create
         THEN "CreatePermanent"
         ELSE IF ~dbFileExists /\ ~c.NoInitialLoad
              THEN "RejectAbsent"
              ELSE "DeferLoad"

\* lines 420-471: what is done about the wallet, given the flags and
\* whether the wallet database exists
BootstrapDecision(c, dbFileExists) ==
    IF c.CreateTemp
    THEN IF dbFileExists THEN "LoadExisting" ELSE "CreateTemporary"
    ELSE IF c.Create
         THEN IF dbFileExists THEN "RejectExists" ELSE "CreatePermanent"
         ELSE IF ~dbFileExists /\ ~c.NoInitialLoad
              THEN "RejectAbsent"
              ELSE "DeferLoad"

\* a variant of lines 462-468 with the two errors exchanged
AbsentWalletErrorSwapped(keystoreExists) ==
    IF keystoreExists THEN "wallet does not exist"
    ELSE "wallet is in legacy format"

\* lines 462-468: which error an absent wallet gives
AbsentWalletError(keystoreExists) ==
    IF ~keystoreExists THEN "wallet does not exist"
    ELSE "wallet is in legacy format"

Decide ==
    /\ pc = "Decide"
    /\ LET d == BootstrapDecision(cfg, fs.db = "yes")
       IN  \/ /\ d = "LoadExisting"
              /\ Go("RPCClient", "Decide", {"wallet already exists, loading it"})
              /\ UNCHANGED <<fs, calls>>
           \/ /\ d = "CreateTemporary"
              /\ calls' = [calls EXCEPT !.createSimulationWallet = @ + 1]
              /\ \E ok \in BOOLEAN :
                    IF ok THEN Go("RPCClient", "Decide", {})
                    ELSE End("error", "create wallet", {"unable to create wallet"})
              /\ UNCHANGED fs
           \/ /\ d = "RejectExists"
              /\ End("error", "wallet exists", {"wallet exists"})
              /\ UNCHANGED <<fs, calls>>
           \/ /\ d = "CreatePermanent"
              /\ calls' = [calls EXCEPT !.createWallet = @ + 1]
              /\ \E ok \in BOOLEAN :
                    IF ok THEN End("exit0", "", {})
                    ELSE End("error", "create wallet", {"unable to create wallet"})
              /\ UNCHANGED fs
           \/ /\ d = "RejectAbsent"
              /\ \E answer \in FileAnswers :
                    /\ fs' = [fs EXCEPT !.keystore = answer]
                    /\ IF answer = "err"
                       THEN End("error", "io", {"io error"})
                       ELSE End("error", AbsentWalletError(answer = "yes"),
                                {AbsentWalletError(answer = "yes")})
              /\ UNCHANGED calls
           \/ /\ d = "DeferLoad"
              /\ Go("RPCClient", "Decide", {})
              /\ UNCHANGED <<fs, calls>>
    /\ UNCHANGED <<args, file, cfg, preCfg, configFilePath, configFileError,
                   sibling, activeNet>>

\* lines 473-477
localhostListeners == {"localhost", "127.0.0.1", "::1"}

\* lines 479-528: the address of pktd and the certificate to trust
RPCClient ==
    /\ pc = "RPCClient"
    /\ IF ~cfg.UseRPC
       THEN /\ cfg' = cfg
            /\ Go("DefaultListeners", "RPCClient", {})
       ELSE LET given == IF cfg.RPCConnect = <<>>
                         THEN Addr("localhost", RPCClientPort(activeNet))
                         ELSE cfg.RPCConnect[1]
                connect == NormalizeAddress(given, RPCClientPort(activeNet))
                own == Join(cfg.AppDataDir.Value, defaultCAFilename)
            IN  IF NormalizeFails(<<given>>)
                THEN /\ cfg' = cfg
                     /\ End("error", "rpcconnect", {"invalid rpcconnect"})
                ELSE IF ~(cfg.ClientTLS /\ ~cfg.CAFile.Set)
                     THEN /\ cfg' = [cfg EXCEPT !.RPCConnect = <<connect>>]
                          /\ Go("DefaultListeners", "RPCClient", {})
                     ELSE \E certExists \in FileAnswers,
                             pktdCertExists \in FileAnswers :
                            LET local == connect.host \in localhostListeners
                            IN  IF certExists = "err"
                                   \/ (certExists = "no" /\ local
                                       /\ pktdCertExists = "err")
                                THEN /\ cfg' = cfg
                                     /\ End("error", "io", {"io error"})
                                ELSE /\ cfg' =
                                          [cfg EXCEPT
                                             !.RPCConnect = <<connect>>,
                                             !.CAFile.Value =
                                                 IF certExists = "no" /\ local
                                                    /\ pktdCertExists = "yes"
                                                 THEN pktdDefaultCAFile
                                                 ELSE own]
                                     /\ Go("DefaultListeners", "RPCClient", {})
    /\ UNCHANGED <<args, file, preCfg, configFilePath, configFileError,
                   sibling, activeNet, fs, calls>>

\* what net.LookupHost("localhost") can answer, when it answers
LookupAnswers == {<<"127.0.0.1">>, <<"::1", "127.0.0.1">>}

\* lines 540-544: the legacy server listens on each address of localhost
DefaultListenersOn(addrs, net) ==
    [i \in 1..Len(addrs) |-> Addr(addrs[i], RPCServerPort(net))]

\* lines 530-545: default listeners, when neither server was given any
DefaultListeners ==
    /\ pc = "DefaultListeners"
    /\ IF Len(cfg.ExperimentalRPCListeners) = 0
          /\ Len(cfg.LegacyRPCListeners) = 0
       THEN \/ \E addrs \in LookupAnswers :
                 /\ cfg' = [cfg EXCEPT !.LegacyRPCListeners =
                                           DefaultListenersOn(addrs, activeNet)]
                 /\ Go("Normalize", "DefaultListeners", {})
            \/ /\ cfg' = cfg
               /\ End("error", "lookup", {})
       ELSE /\ cfg' = cfg
            /\ Go("Normalize", "DefaultListeners", {})
    /\ UNCHANGED <<args, file, preCfg, configFilePath, configFileError,
                   sibling, activeNet, fs, calls>>

\* lines 547-562: ports added, duplicates removed
Normalize ==
    /\ pc = "Normalize"
    /\ IF NormalizeFails(cfg.LegacyRPCListeners)
       THEN /\ cfg' = cfg
            /\ End("error", "legacy listener address",
                   {"invalid legacy listener address"})
       ELSE IF NormalizeFails(cfg.ExperimentalRPCListeners)
            THEN /\ cfg' = [cfg EXCEPT !.LegacyRPCListeners =
                               NormalizeAddresses(@, RPCServerPort(activeNet))]
                 /\ End("error", "listener address",
                        {"invalid listener address"})
            ELSE /\ cfg' = [cfg EXCEPT
                               !.LegacyRPCListeners =
                                   NormalizeAddresses(@, RPCServerPort(activeNet)),
                               !.ExperimentalRPCListeners =
                                   NormalizeAddresses(@, RPCServerPort(activeNet))]
                 /\ Go("Conflict", "Normalize", {})
    /\ UNCHANGED <<args, file, preCfg, configFilePath, configFileError,
                   sibling, activeNet, fs, calls>>

\* lines 570-579: the first experimental listener that is a legacy listener
RECURSIVE FirstSeen(_, _)
FirstSeen(legacy, experimental) ==
    IF experimental = <<>> THEN <<>>
    ELSE IF \E i \in 1..Len(legacy) : legacy[i] = Head(experimental)
         THEN <<Head(experimental)>>
         ELSE FirstSeen(legacy, Tail(experimental))

\* a variant of lines 565-580 that tests the first experimental listener only
SharedListenerFirstOnly(legacy, experimental) ==
    IF Len(legacy) > 0 /\ Len(experimental) > 0
    THEN FirstSeen(legacy, <<Head(experimental)>>)
    ELSE <<>>

\* lines 565-580: the address both servers would listen on, if there is one
SharedListener(legacy, experimental) ==
    IF Len(legacy) > 0 /\ Len(experimental) > 0
    THEN FirstSeen(legacy, experimental)
    ELSE <<>>

Conflict ==
    /\ pc = "Conflict"
    /\ LET shared == SharedListener(cfg.LegacyRPCListeners,
                                    cfg.ExperimentalRPCListeners)
       IN  IF shared # <<>>
           THEN /\ pc' = "done"
                /\ outcome' = "error"
                /\ errKind' = "listener conflict"
                /\ errAddr' = shared
                /\ printed' = printed \cup {"listener conflict"}
                /\ ran' = ran
           ELSE Go("ExpandPaths", "Conflict", {})
    /\ UNCHANGED <<args, file, cfg, preCfg, configFilePath, configFileError,
                   sibling, activeNet, fs, calls>>

\* lines 582-585
ExpandFilePaths(c) ==
    [c EXCEPT !.CAFile.Value = cleanAndExpandPath(@),
              !.RPCCert.Value = cleanAndExpandPath(@),
              !.RPCKey.Value = cleanAndExpandPath(@)]

ExpandPaths ==
    /\ pc = "ExpandPaths"
    /\ cfg' = ExpandFilePaths(cfg)
    /\ Go("Creds", "ExpandPaths", {})
    /\ UNCHANGED <<args, file, preCfg, configFilePath, configFileError,
                   sibling, activeNet, fs, calls>>

\* lines 587-592: an empty rpcuser / rpcpass takes the old alias
AliasCredentials(c) ==
    [c EXCEPT !.Username = IF @ = "" THEN c.OldUsername ELSE @,
              !.Password = IF @ = "" THEN c.OldPassword ELSE @]

\* a variant of lines 598-603 that gives pktd the client's user and
\* password whatever it holds
ShareCredentialsAlways(c) ==
    [c EXCEPT !.BtcdUsername = c.Username,
              !.BtcdPassword = c.Password]

\* lines 598-603: an empty pktd user / password takes the client's
ShareCredentials(c) ==
    [c EXCEPT !.BtcdUsername = IF @ = "" THEN c.Username ELSE @,
              !.BtcdPassword = IF @ = "" THEN c.Password ELSE @]

\* lines 587-603
Creds ==
    /\ pc = "Creds"
    /\ cfg' = ShareCredentials(AliasCredentials(cfg))
    /\ Go("Return", "Creds", {})
    /\ UNCHANGED <<args, file, preCfg, configFilePath, configFileError,
                   sibling, activeNet, fs, calls>>

\* lines 605-612: the warning about the config file, and the result
Return ==
    /\ pc = "Return"
    /\ pc' = "done"
    /\ outcome' = "config"
    /\ ran' = ran \cup {"Return"}
    /\ printed' = IF configFileError
                  THEN printed \cup {"config file warning"} ELSE printed
    /\ UNCHANGED <<args, file, cfg, preCfg, configFilePath, configFileError,
                   sibling, activeNet, fs, calls, errKind, errAddr>>

Next ==
    \/ PreParse
    \/ ConfigPath
    \/ ReadUserPass
    \/ ParseFile
    \/ Parse
    \/ Alias
    \/ AppData
    \/ NetSelect
    \/ LogDir
    \/ LogLevel
    \/ TempChecks
    \/ Exclusive
    \/ DbExists
    \/ NetDir
    \/ Decide
    \/ RPCClient
    \/ DefaultListeners
    \/ Normalize
    \/ Conflict
    \/ ExpandPaths
    \/ Creds
    \/ Return

Spec == Init /\ [][Next]_vars

(***************************************************************************)
(* Vocabulary of the properties.                                           *)
(***************************************************************************)
\* the run is over
Finished == pc = "done"

\* the option was given an explicit application-data or data directory
ExplicitDir == cfg.AppDataDir.Set \/ cfg.DataDir.Set

\* the wallet-creation calls made so far
WalletCalls == calls.createWallet + calls.createSimulationWallet

\* the bootstrap decision (lines 420-471) has been taken
Decided == fs.db \in {"yes", "no"} /\ calls.netDir = 1 /\ pc # "Decide"

\* the blocks after the bootstrap decision
LaterBlocks ==
    {"Decide", "RPCClient", "DefaultListeners", "Normalize", "Conflict",
     "ExpandPaths", "Creds", "Return"}

\* the value an option is resolved from, by the three-way precedence
Layered(onCommandLine, inFile, default) ==
    IF onCommandLine # <<>> THEN onCommandLine[1]
    ELSE IF inFile # <<>> THEN inFile[1] ELSE default

LayeredList(onCommandLine, inFile, default) ==
    IF onCommandLine # <<>> THEN onCommandLine
    ELSE IF inFile # <<>> THEN inFile ELSE default

\* every option but pktdusername / pktdpassword follows the precedence
LayeredOptions ==
    /\ cfg.ConfigFile.Value =
           Layered(args.configfile, file.configfile, defaultConfigFile)
    /\ cfg.AppDataDir.Value =
           Layered(args.appdata, file.appdata, defaultAppDataDir)
    /\ cfg.DataDir.Value =
           Layered(args.datadir, file.datadir, defaultAppDataDir)
    /\ cfg.RPCKey.Value = Layered(args.rpckey, file.rpckey, defaultRPCKeyFile)
    /\ cfg.RPCCert.Value =
           Layered(args.rpccert, file.rpccert, defaultRPCCertFile)
    /\ cfg.CAFile.Value = Layered(args.cafile, file.cafile, Path(FALSE, <<>>))
    /\ cfg.LogDir = Layered(args.logdir, file.logdir, defaultLogDir)
    /\ cfg.DebugLevel =
           Layered(args.debuglevel, file.debuglevel, defaultLogLevel)
    /\ cfg.RPCConnect = LayeredList(args.rpcconnect, file.rpcconnect, <<>>)
    /\ cfg.Username = Layered(args.rpcuser, file.rpcuser, "")
    /\ cfg.Password = Layered(args.rpcpass, file.rpcpass, "")
    /\ cfg.OldUsername = Layered(args.username, file.username, "")
    /\ cfg.OldPassword = Layered(args.password, file.password, "")
    /\ cfg.LegacyRPCListeners =
           LayeredList(args.rpclisten, file.rpclisten, <<>>)
    /\ cfg.ExperimentalRPCListeners =
           LayeredList(args.experimentalrpclisten,
                       file.experimentalrpclisten, <<>>)
    /\ cfg.nets = args.nets \cup file.nets
    /\ cfg.Create = (args.create \/ file.create)
    /\ cfg.CreateTemp = (args.createtemp \/ file.createtemp)
    /\ cfg.NoInitialLoad = (args.noinitialload \/ file.noinitialload)
    /\ cfg.UseRPC = (args.userpc \/ file.userpc)
    /\ cfg.ClientTLS = (args.clienttls \/ file.clienttls)

\* the blocks of the bootstrap decision engine (lines 408-471)
BootstrapBlocks == {"DbExists", "NetDir", "Decide"}

\* the blocks of the listener normalizer and of the credential fallback
\* (lines 530-580 and 587-603)
ListenerAndCredentialBlocks ==
    {"DefaultListeners", "Normalize", "Conflict", "Creds"}

\* the errors of lines 551-579
ListenerErrors ==
    {"legacy listener address", "listener address", "listener conflict"}

\* the value a field holds when non-empty, else the fallback
OrElse(value, fallback) == IF value # "" THEN value ELSE fallback

\* what the parses leave in the credential fields before the fallbacks of
\* lines 587-603: the command line's value, else the file's, else the
\* default, which for the pktd pair is what was read from pktd.conf
ParsedCredentials ==
    [rpcuser |-> Layered(args.rpcuser, file.rpcuser, ""),
     rpcpass |-> Layered(args.rpcpass, file.rpcpass, ""),
     username |-> Layered(args.username, file.username, ""),
     password |-> Layered(args.password, file.password, ""),
     pktdusername |->
         Layered(args.pktdusername, file.pktdusername,
                 IF sibling = "pair" THEN SiblingPair[1] ELSE ""),
     pktdpassword |->
         Layered(args.pktdpassword, file.pktdpassword,
                 IF sibling = "pair" THEN SiblingPair[2] ELSE "")]

\* the directory options as given, <<>> or <<v>>: the command line's value,
\* else the file's
GivenAppData == LayeredList(args.appdata, file.appdata, <<>>)

GivenDataDir == LayeredList(args.datadir, file.datadir, <<>>)

\* the addresses both listener lists hold
CommonListeners ==
    {cfg.LegacyRPCListeners[i] : i \in 1..Len(cfg.LegacyRPCListeners)}
    \cap {cfg.ExperimentalRPCListeners[i] :
             i \in 1..Len(cfg.ExperimentalRPCListeners)}

(***************************************************************************)
(* Properties.                                                             *)
(***************************************************************************)

\* C1, as claimed: a run with create and createtemp both set, whatever the
\* network flags and directories, ends in the 'create and createtemp'
\* error and never in a clean exit.  Stated of the runs that got through
\* network selection and the log level.
C1_AlwaysRejected ==
    (Finished /\ "LogLevel" \in ran /\ cfg.Create /\ cfg.CreateTemp)
        => (outcome = "error" /\ errKind = "create and createtemp")

\* C1, amended: a run with create and createtemp both set never creates a
\* wallet and never returns a configuration; it ends in the 'create and
\* createtemp' error exactly when it gets to that check, that is with an
\* explicit appdata or datadir and with simnet; without an explicit
\* directory or off simnet it ends, before the check, in a clean exit.
C1_RejectedWhenReached ==
    /\ (args.create /\ args.createtemp)
           => (outcome # "config" /\ WalletCalls = 0)
    /\ (Finished /\ "LogLevel" \in ran /\ cfg.Create /\ cfg.CreateTemp)
           => /\ outcome # "config" /\ WalletCalls = 0
              /\ (ExplicitDir /\ "SimNet" \in cfg.nets)
                     => (outcome = "error" /\ errKind = "create and createtemp")
              /\ ~(ExplicitDir /\ "SimNet" \in cfg.nets) => outcome = "exit0"

C1_Witness ==
    /\ Finished /\ cfg.Create /\ cfg.CreateTemp
    /\ outcome = "error" /\ errKind = "create and createtemp"

\* C2, as claimed: a returned configuration has exactly one network flag
\* set, and two or more flags are rejected.
C2_ExactlyOneNet ==
    /\ outcome = "config" => Cardinality(cfg.nets) = 1
    /\ (Finished /\ "AppData" \in ran /\ Cardinality(cfg.nets) >= 2)
           => (outcome = "error" /\ errKind = "multiple networks")

\* C2, amended: a returned configuration has at most one network flag set
\* (none selects the default network); whichever two or more flags are
\* set, the run that gets to network selection ends there in the
\* multiple-networks error.
C2_AtMostOneNet ==
    /\ outcome = "config"
           => /\ Cardinality(cfg.nets) <= 1
              /\ \A f \in cfg.nets : activeNet = NetOfFlag(f)
              /\ cfg.nets = {} => activeNet = defaultActiveNet
    /\ (Finished /\ "AppData" \in ran /\ Cardinality(cfg.nets) >= 2)
           => (outcome = "error" /\ errKind = "multiple networks")
    /\ "NetSelect" \in ran => Cardinality(cfg.nets) <= 1

C2_Witness ==
    /\ Finished /\ Cardinality(cfg.nets) >= 2
    /\ "AppData" \in ran /\ errKind = "multiple networks"

\* C3, as claimed: after the final parse every option holds the
\* command-line value if given, else the file's value if given, else the
\* compiled-in default; the file is merged before the final parse.
C3_ThreeWay ==
    pc = "Alias"
        => /\ LayeredOptions
           /\ cfg.BtcdUsername =
                  Layered(args.pktdusername, file.pktdusername, "")
           /\ cfg.BtcdPassword =
                  Layered(args.pktdpassword, file.pktdpassword, "")
           /\ "ParseFile" \in ran

\* C3, amended: as claimed, but for pktdusername and pktdpassword the
\* value used when neither the command line nor the file gives one is the
\* user / password read from pktd.conf when that file was read and holds
\* both, and the compiled-in default otherwise.
C3_ThreeWaySeeded ==
    pc = "Alias"
        => /\ LayeredOptions
           /\ cfg.BtcdUsername =
                  Layered(args.pktdusername, file.pktdusername,
                          IF sibling = "pair" THEN SiblingPair[1] ELSE "")
           /\ cfg.BtcdPassword =
                  Layered(args.pktdpassword, file.pktdpassword,
                          IF sibling = "pair" THEN SiblingPair[2] ELSE "")
           /\ "ParseFile" \in ran

C3_Witness ==
    /\ pc = "Alias"
    /\ args.debuglevel # <<>> /\ file.debuglevel # <<>>
    /\ args.debuglevel # file.debuglevel
    /\ cfg.DebugLevel = args.debuglevel[1]
    /\ args.rpclisten = <<>> /\ file.rpclisten # <<>>
    /\ cfg.LegacyRPCListeners = file.rpclisten

\* C4, as claimed: in a returned configuration with appdata explicitly set,
\* an rpckey / rpccert that was not given is <appdata>/rpc.key /
\* <appdata>/rpc.cert, <appdata> being the expanded directory, and one
\* that was given is the user's (expanded) value.
C4_DerivedFromAppData ==
    (outcome = "config" /\ cfg.AppDataDir.Set)
        => LET dir == cleanAndExpandPath(
                          Layered(args.appdata, file.appdata, defaultAppDataDir))
           IN  /\ cfg.AppDataDir.Value = dir
               /\ cfg.RPCKey.Value =
                      IF cfg.RPCKey.Set
                      THEN cleanAndExpandPath(
                               Layered(args.rpckey, file.rpckey, defaultRPCKeyFile))
                      ELSE Join(dir, Name("rpc.key"))
               /\ cfg.RPCCert.Value =
                      IF cfg.RPCCert.Set
                      THEN cleanAndExpandPath(
                               Layered(args.rpccert, file.rpccert,
                                       defaultRPCCertFile))
                      ELSE Join(dir, Name("rpc.cert"))

\* C5, as claimed: in a returned configuration whose log directory was not
\* given, the log directory is <appdata>/logs/<network name>.
C5_LogDirUnderAppData ==
    (outcome = "config" /\ args.logdir = <<>> /\ file.logdir = <<>>)
        => cfg.LogDir =
               Join(Join(cfg.AppDataDir.Value, Name("logs")), Name(activeNet))

\* C6: with create, createtemp and noinitialload all false and the wallet
\* database found absent, no configuration is returned and no wallet is
\* created; the run fails with 'wallet does not exist' when the legacy
\* keystore is found absent and with 'wallet is in legacy format' when it
\* is found present.
C6_AbsentWalletRejected ==
    ("Parse" \in ran /\ ~cfg.Create /\ ~cfg.CreateTemp /\ ~cfg.NoInitialLoad
     /\ fs.db = "no")
        => /\ outcome # "config"
           /\ WalletCalls = 0
           /\ ran \cap LaterBlocks = {}
           /\ fs.keystore = "no"
                  => (outcome = "error" /\ errKind = "wallet does not exist")
           /\ fs.keystore = "yes"
                  => (outcome = "error" /\ errKind = "wallet is in legacy format")
           /\ Decided => (outcome = "error" /\ fs.keystore # "unknown")

C6_Witness ==
    /\ Finished /\ ~cfg.Create /\ ~cfg.CreateTemp /\ ~cfg.NoInitialLoad
    /\ fs.db = "no" /\ fs.keystore = "yes"
    /\ outcome = "error" /\ errKind = "wallet is in legacy format"

\* C7: with createtemp and not create, on simnet, with an explicit data
\* directory, once the bootstrap decision is taken: if the wallet database
\* was found absent, createSimulationWallet was invoked exactly once (and
\* createWallet never) and resolution went on, unless that creation itself
\* failed; if it was found present, no creation was invoked, the
\* informational message was printed and resolution went on.
C7_TemporaryWallet ==
    ("Parse" \in ran /\ cfg.CreateTemp /\ ~cfg.Create /\ "SimNet" \in cfg.nets
     /\ ExplicitDir /\ Decided)
        => /\ fs.db = "no"
                  => /\ calls.createSimulationWallet = 1
                     /\ calls.createWallet = 0
                     /\ \/ "Decide" \in ran
                        \/ outcome = "error" /\ errKind = "create wallet"
           /\ fs.db = "yes"
                  => /\ WalletCalls = 0
                     /\ "wallet already exists, loading it" \in printed
                     /\ "Decide" \in ran
           /\ "Decide" \in ran
                  => (outcome \in {"running", "config"}
                      \/ (outcome = "error" /\ errKind # "create wallet"))

C7_Witness ==
    /\ cfg.CreateTemp /\ ~cfg.Create /\ "SimNet" \in cfg.nets /\ ExplicitDir
    /\ fs.db = "no" /\ calls.createSimulationWallet = 1
    /\ outcome = "config"

\* C8: with create and not createtemp, once the bootstrap decision is
\* taken: if the wallet database was found present, the run fails with
\* the 'already exists' error and createWallet was never invoked; if it
\* was found absent, createWallet was invoked once and the run ends there,
\* on success with exit status 0, without a configuration and without any
\* later block having run.
C8_PermanentWallet ==
    /\ ("Parse" \in ran /\ cfg.Create /\ ~cfg.CreateTemp /\ fs.db = "yes")
           => calls.createWallet = 0
    /\ ("Parse" \in ran /\ cfg.Create /\ ~cfg.CreateTemp /\ Decided)
           => /\ Finished
              /\ outcome # "config"
              /\ ran \cap LaterBlocks = {}
              /\ calls.createSimulationWallet = 0
              /\ fs.db = "yes"
                     => (outcome = "error" /\ errKind = "wallet exists")
              /\ fs.db = "no"
                     => /\ calls.createWallet = 1
                        /\ \/ outcome = "exit0"
                           \/ outcome = "error" /\ errKind = "create wallet"

C8_Witness ==
    /\ cfg.Create /\ ~cfg.CreateTemp /\ fs.db = "no"
    /\ calls.createWallet = 1 /\ outcome = "exit0"

\* C9: a returned configuration's normalized listener lists share no
\* address; once both lists are normalized and checked, if they share an
\* address the run has failed with the conflict error, which names an
\* address that both lists hold (the first such experimental listener).
C9_NoSharedListener ==
    /\ outcome = "config" => CommonListeners = {}
    /\ ("Normalize" \in ran /\ pc # "Conflict" /\ CommonListeners # {})
           => /\ outcome = "error"
              /\ errKind = "listener conflict"
              /\ Len(errAddr) = 1
              /\ errAddr[1] \in CommonListeners
              /\ \A a \in CommonListeners :
                    Cardinality(CommonListeners) = 1 => errAddr = <<a>>
    /\ errKind = "listener conflict" => CommonListeners # {}

C9_Witness ==
    /\ Finished /\ errKind = "listener conflict"
    /\ errAddr = <<Addr("127.0.0.1", 8332)>>
    /\ Len(cfg.ExperimentalRPCListeners) = 2
    /\ cfg.ExperimentalRPCListeners[2] = Addr("127.0.0.1", 8332)

\* C10, as claimed: when rpcuser and rpcpass were not both given on the
\* command line and pktd.conf is absent, nothing is printed about it and
\* the run is not ended by it and goes on to the wallet's own config file.
C10_AbsentSiblingIgnored ==
    sibling = "absent"
        => /\ "pktd.conf error" \notin printed
           /\ outcome # "nothing"
           /\ "ReadUserPass" \in ran

\* C11, as claimed: the bootstrap decision engine runs after the listener
\* normalizer and the credential fallback, so that while it runs they have
\* run, and a run that ends in a listener-address or listener-conflict
\* error has created no network directory and no wallet.
C11_ListenersBeforeBootstrap ==
    /\ (pc \in BootstrapBlocks) => ({"Normalize", "Creds"} \subseteq ran)
    /\ (Finished /\ errKind \in ListenerErrors)
          => (calls.netDir = 0 /\ WalletCalls = 0)

\* C11, amended: the bootstrap decision engine runs before the listener
\* normalizer and the credential fallback.  While it runs none of their
\* blocks has run; when one of them runs, or has run, the wallet database
\* was looked for, the network directory was created and the decision was
\* taken; a run that ends in a listener-address or listener-conflict error
\* has created the network directory, has called createWallet never and
\* createSimulationWallet exactly when createtemp is set and the wallet
\* database was absent.
C11_BootstrapBeforeListeners ==
    /\ (pc \in BootstrapBlocks) => (ran \cap ListenerAndCredentialBlocks = {})
    /\ (pc \in ListenerAndCredentialBlocks
          \/ ran \cap ListenerAndCredentialBlocks # {})
          => (BootstrapBlocks \subseteq ran /\ Decided)
    /\ (Finished /\ errKind \in ListenerErrors)
          => /\ calls.netDir = 1
             /\ calls.createWallet = 0
             /\ calls.createSimulationWallet =
                    (IF cfg.CreateTemp /\ fs.db = "no" THEN 1 ELSE 0)

\* a run that created the network directory and a temporary wallet and then
\* ended in the listener-conflict error
C11_Witness ==
    /\ Finished
    /\ errKind = "listener conflict"
    /\ calls.netDir = 1
    /\ calls.createSimulationWallet = 1

\* C12: in every configuration returned, for the user and the password
\* independently, rpcuser / rpcpass holds its parsed value when that is not
\* empty and else the value of username / password; pktdusername /
\* pktdpassword holds its parsed value when that is not empty and else the
\* resolved rpcuser / rpcpass; the legacy fields are left as parsed.  So a
\* non-empty field is never overwritten by a fallback.
C12_CredentialFallback ==
    outcome = "config" =>
        LET p == ParsedCredentials
        IN  /\ cfg.Username = OrElse(p.rpcuser, p.username)
            /\ cfg.Password = OrElse(p.rpcpass, p.password)
            /\ cfg.BtcdUsername = OrElse(p.pktdusername, cfg.Username)
            /\ cfg.BtcdPassword = OrElse(p.pktdpassword, cfg.Password)
            /\ cfg.OldUsername = p.username
            /\ cfg.OldPassword = p.password

\* a configuration returned in which the user fell back twice (rpcuser and
\* pktdusername empty, username given) while the passwords, both given,
\* were kept
C12_Witness ==
    /\ outcome = "config"
    /\ ParsedCredentials.rpcuser = ""
    /\ ParsedCredentials.pktdusername = ""
    /\ ParsedCredentials.username = "ou"
    /\ cfg.Username = "ou"
    /\ cfg.BtcdUsername = "ou"
    /\ ParsedCredentials.rpcpass = "cp"
    /\ ParsedCredentials.pktdpassword = "bp"
    /\ cfg.Password = "cp"
    /\ cfg.BtcdPassword = "bp"

\* C13, as claimed: in every configuration returned, when datadir was given
\* and appdata was not, the application-data directory is the cleaned and
\* expanded datadir value, and rpckey / rpccert that were not given are
\* rpc.key and rpc.cert in that directory; when both were given, the
\* application-data directory is the cleaned and expanded appdata value.
C13_DataDirAliasesAppData ==
    (outcome = "config" /\ GivenDataDir # <<>>) =>
        IF GivenAppData = <<>>
        THEN LET dir == cleanAndExpandPath(GivenDataDir[1])
             IN  /\ cfg.AppDataDir.Value = dir
                 /\ ~cfg.RPCKey.Set
                       => cfg.RPCKey.Value = Join(dir, Name("rpc.key"))
                 /\ ~cfg.RPCCert.Set
                       => cfg.RPCCert.Value = Join(dir, Name("rpc.cert"))
        ELSE cfg.AppDataDir.Value = cleanAndExpandPath(GivenAppData[1])

====
